---- MODULE Spec2Model ----
(***************************************************************************)
(* A model of leveldb-rados: the LevelDB Env that keeps LevelDB's files as *)
(* objects of a RADOS pool.  Two builds of the Env are in the repository:  *)
(* src/cbits/RadosEnv.cpp (appends are queued with aio_append and Sync     *)
(* waits in aio_flush) and src/main.cpp (appends are synchronous, Flush    *)
(* and Sync do nothing).  The variable build says which one runs.          *)
(*                                                                         *)
(* The pool is a function from object names to objects.  A byte is a       *)
(* natural number.  In the writer specification the bytes an Append call   *)
(* supplies are copies of that call's number, so that the bytes of an      *)
(* object show which appends were applied to it and in which order.        *)
(***************************************************************************)
EXTENDS Integers, Sequences, FiniteSets, TLC

\* ---------------------------------------------------------------- bounds

\* The longest content of an object of the initial pool (reader and rename
\* specifications).
MaxLen == 2

\* The number of calls made on the sequential reader in one behaviour.
MaxOps == 2

\* off_ is a uint64_t: arithmetic on it is modulo 2^64.  TLC's integers are
\* 32 bits wide, so the model keeps the wrap-around at a narrower word of
\* OffBits bits.
OffBits == 3

Modulus == 2 ^ OffBits

\* The number of Append calls made in one behaviour (writer specification).
MaxAppends == 2

\* The calls of LockFile.
MaxLocks == 3

\* The number of Flush calls made in one behaviour.
MaxFlushes == 1

Names == {"a", "b"}

Bytes == {1, 2}

Builds == {"cbits", "main"}

Writers == {"w1", "w2"}

\* The threads that call Read on one random-access reader.
Threads == {"t1", "t2"}

\* The lengths of the data of an Append call.
DataLens == {1, 2}

\* ------------------------------------------------------------- the state

VARIABLES
  build,    \* which source file is the running Env
  obj,      \* the pool: name -> [present, bytes]
  ret,      \* the last call made and the leveldb::Status it returned
  \* RadosSequentialFile
  fname_,   \* the reader's object name
  off_,     \* the reader's cursor
  result,   \* *result of the reader's last Read
  hist,     \* the calls made on the reader since its construction
  \* RadosEnv
  pre,      \* the pool as the last RenameFile or DeleteFile found it
  \* RadosWritableFile
  wfile,    \* writer -> its fname_ ("" before NewWritableFile makes it)
  pc,       \* writer -> "idle", or "Sync" while its owner waits in aio_flush
  waitSeq,  \* writer -> while in Sync, the number of the last append queued when it began
  appended, \* writer -> the bytes of its Append calls that returned OK, in call order
  syncSnap, \* writer -> its appends that were unacknowledged when its Sync began
  \* the shared IoCtx
  aio,      \* the appends queued and not yet acknowledged, in queue order
  nextTok,  \* the number of the next Append call
  ackLog,   \* the acknowledgements the backend has sent, in order
  syncAll,  \* writer -> while in Sync, the appends of all writers unacknowledged when it began
  closed,   \* writer -> whether Close has been called on it
  completions, \* the librados::AioCompletion objects created and not released
  flushq,   \* the aio_flush_async requests that have not completed
  nextFlush, \* the number of the next Flush call
  \* RadosEnv
  scen,     \* how far the calls have followed: RenameFile failing at its remove, DeleteFile(src) twice
  locks,    \* the leveldb::FileLock objects handed out by LockFile and not given to UnlockFile
  nextLock, \* the number of the next FileLock
  \* RadosRandomAccessFile
  rres      \* thread -> its last Read: the arguments and what it returned

readerVars == <<fname_, off_, result, hist>>

flushVars == <<closed, completions, flushq, nextFlush>>

writerVars == <<wfile, pc, waitSeq, appended, syncSnap, aio, nextTok, ackLog, syncAll, flushVars>>

lockVars == <<locks, nextLock>>

vars == <<build, obj, ret, pre, readerVars, writerVars, scen, lockVars, rres>>

\* ------------------------------------------------------------- sequences

Min(a, b) == IF a < b THEN a ELSE b

RECURSIVE SeqsUpTo(_, _)
SeqsUpTo(S, n) ==
  IF n = 0 THEN {<<>>}
  ELSE LET shorter == SeqsUpTo(S, n - 1)
       IN  shorter \cup {Append(s, x) : s \in {t \in shorter : Len(t) = n - 1}, x \in S}

\* ------------------------------------------------------------ the status

StatusOK == [code |-> "OK", context |-> <<>>, errno |-> "0"]

\* leveldb::Status::IOError(context, strerror(err_number))
IOError(context, err_number) ==
  [code |-> "IOError", context |-> context, errno |-> err_number]

\* ---------------------------------------------------- the pool (librados)

NoObject == [present |-> FALSE, bytes |-> <<>>]

Object(bytes) == [present |-> TRUE, bytes |-> bytes]

ObjStates == {NoObject} \cup {Object(b) : b \in SeqsUpTo(Bytes, MaxLen)}

\* IoCtx::read(oid, bl, len, off): the bytes [off, off+len) that the object
\* holds, r their number; r < 0 (here the errno) when the object is missing
\* or the backend fails.
IoCtxRead(pool, oid, len, off, fault) ==
  IF fault THEN [err |-> "EIO", bl |-> <<>>]
  ELSE IF ~pool[oid].present THEN [err |-> "ENOENT", bl |-> <<>>]
  ELSE LET b == pool[oid].bytes
           last == Min(off + len, Len(b))
       IN  [err |-> "0", bl |-> IF off >= Len(b) THEN <<>> ELSE SubSeq(b, off + 1, last)]

\* IoCtx::stat(oid, &size, &mtime)
IoCtxStat(pool, oid, fault) ==
  IF fault THEN [err |-> "EIO", size |-> 0]
  ELSE IF ~pool[oid].present THEN [err |-> "ENOENT", size |-> 0]
  ELSE [err |-> "0", size |-> Len(pool[oid].bytes)]

\* IoCtx::write_full(oid, bl): the object is created or replaced as a whole.
IoCtxWriteFull(pool, oid, bl, fault) ==
  IF fault THEN [err |-> "EIO", pool |-> pool]
  ELSE [err |-> "0", pool |-> [pool EXCEPT ![oid] = Object(bl)]]

\* A remove that reports no error for an object that is missing.
IoCtxRemoveQuiet(pool, oid, fault) ==
  IF fault THEN [err |-> "EIO", pool |-> pool]
  ELSE [err |-> "0", pool |-> [pool EXCEPT ![oid] = NoObject]]

\* IoCtx::remove(oid)
IoCtxRemove(pool, oid, fault) ==
  IF fault THEN [err |-> "EIO", pool |-> pool]
  ELSE IF ~pool[oid].present THEN [err |-> "ENOENT", pool |-> pool]
  ELSE [err |-> "0", pool |-> [pool EXCEPT ![oid] = NoObject]]

\* A create that reports no error and makes no object.
IoCtxCreateNothing(pool, oid, exclusive, fault) ==
  IF fault THEN [err |-> "EIO", pool |-> pool]
  ELSE [err |-> IF pool[oid].present /\ exclusive THEN "EEXIST" ELSE "0", pool |-> pool]

\* A create that takes an existing object also when it is asked to be
\* exclusive.
IoCtxCreateNonExclusive(pool, oid, exclusive, fault) ==
  IF fault THEN [err |-> "EIO", pool |-> pool]
  ELSE IF pool[oid].present
  THEN [err |-> "0", pool |-> pool]
  ELSE [err |-> "0", pool |-> [pool EXCEPT ![oid] = Object(<<>>)]]

\* IoCtx::create(oid, exclusive)
IoCtxCreate(pool, oid, exclusive, fault) ==
  IF fault THEN [err |-> "EIO", pool |-> pool]
  ELSE IF pool[oid].present
  THEN [err |-> IF exclusive THEN "EEXIST" ELSE "0", pool |-> pool]
  ELSE [err |-> "0", pool |-> [pool EXCEPT ![oid] = Object(<<>>)]]

\* What an append does to the pool: the bytes go to the end of the object,
\* which is created if it is missing.
IoCtxAppend(pool, oid, bl) ==
  [pool EXCEPT ![oid] = Object(pool[oid].bytes \o bl)]

\* ------------------------------------------------- RadosSequentialFile

ReadSizes == (0 .. MaxLen + 1) \cup {Modulus - 1}

\* A Read that advances the cursor by the bytes asked for, not by the bytes read.
SeqReadCursorByRequest(n, r) == (off_ + n) % Modulus

\* off_ += r
SeqReadCursor(n, r) == (off_ + Len(r.bl)) % Modulus

\* Read(n, result, scratch)
SequentialRead(n, fault) ==
  /\ Len(hist) < MaxOps
  /\ LET r == IoCtxRead(obj, fname_, n, off_, fault)
     IN  IF r.err # "0"
         THEN /\ ret' = [op |-> "SequentialFile::Read",
                         status |-> IOError(<<"RadosSequentialFile::Read", fname_>>, r.err)]
              /\ UNCHANGED <<off_, result>>
         ELSE /\ off_' = SeqReadCursor(n, r)
              /\ result' = r.bl
              /\ ret' = [op |-> "SequentialFile::Read", status |-> StatusOK]
  /\ hist' = Append(hist, [op |-> "Read", n |-> n, fault |-> fault])
  /\ UNCHANGED <<build, obj, fname_, pre, writerVars, scen, lockVars, rres>>

SkipSizes == (0 .. MaxLen + 1) \cup {Modulus - 1}

\* A Skip that leaves the cursor where it is.
SkipCursorUnmoved(n) == off_

\* off_ += n
SkipCursor(n) == (off_ + n) % Modulus

\* Skip(n)
SequentialSkip(n) ==
  /\ Len(hist) < MaxOps
  /\ off_' = SkipCursor(n)
  /\ ret' = [op |-> "SequentialFile::Skip", status |-> StatusOK]
  /\ hist' = Append(hist, [op |-> "Skip", n |-> n, fault |-> FALSE])
  /\ UNCHANGED <<build, obj, fname_, result, pre, writerVars, scen, lockVars, rres>>

\* ------------------------------------------------ RadosRandomAccessFile

\* Read(offset, n, result, scratch) const: the status and *result.
RandomAccessRead(pool, fname, offset, n, fault) ==
  LET r == IoCtxRead(pool, fname, n, offset, fault)
  IN  IF r.err # "0"
      THEN [status |-> IOError(<<"RadosRandomAccessFile::Read", fname>>, r.err), result |-> <<>>]
      ELSE [status |-> StatusOK, result |-> r.bl]

\* The offsets and the sizes Read is called with.
ReadOffsets == {0, 1, MaxLen}

RandomReadSizes == {1, MaxLen + 1}

\* A thread that has not called Read.  Of a call, st tells whether it is in
\* Read ("reading": ctx_->read has returned into bl) or has returned
\* ("done"); seen is the object at the time of ctx_->read.
NoRead ==
  [st |-> "idle", offset |-> 0, n |-> 0, fault |-> FALSE,
   bl |-> [err |-> "0", bl |-> <<>>],
   seen |-> NoObject,
   out |-> [status |-> StatusOK, result |-> <<>>]]

\* A Read that keeps the bufferlist in one place for all its callers.
ReadBufferShared(t) == "t1"

\* librados::bufferlist bl: a local of Read, one for each call.
ReadBuffer(t) == t

\* Read(offset, n, result, scratch) of thread t up to the return of
\* ctx_->read(fname_, bl, n, offset).
RandomReadCall(t, offset, n, fault) ==
  /\ rres[t].st # "reading"
  /\ rres' = [rres EXCEPT ![t] = [NoRead EXCEPT !.st = "reading", !.offset = offset,
                                                !.n = n, !.fault = fault,
                                                !.seen = obj[fname_],
                                                !.bl = rres[t].bl],
                          ![ReadBuffer(t)].bl = IoCtxRead(obj, fname_, n, offset, fault)]
  /\ UNCHANGED <<build, obj, ret, pre, readerVars, writerVars, scen, lockVars>>

\* The rest of Read: the error return, or bl.copy(0, r, scratch) into the
\* caller's scratch and *result = Slice(scratch, r); bl goes with the return.
RandomReadReturn(t) ==
  /\ rres[t].st = "reading"
  /\ LET r == rres[ReadBuffer(t)].bl
     IN  rres' = [rres EXCEPT
           ![ReadBuffer(t)].bl = NoRead.bl,
           ![t].st = "done",
           ![t].out = IF r.err # "0"
                      THEN [status |-> IOError(<<"RadosRandomAccessFile::Read", fname_>>, r.err),
                            result |-> <<>>]
                      ELSE [status |-> StatusOK, result |-> r.bl]]
  /\ UNCHANGED <<build, obj, ret, pre, readerVars, writerVars, scen, lockVars>>

\* ------------------------------------------------------------- RadosEnv

\* FileExists(fname)
FileExists(pool, fname, fault) == IoCtxStat(pool, fname, fault).err = "0"

\* The directories GetChildren is asked for.
Dirs == {"db", "tmp"}

\* Object names with a directory part.
Paths == {"db/1", "db/2", "tmp/1"}

\* boost::filesystem::path(p).filename().string(): the last element of p,
\* here for each of Paths.
PathFilename(p) ==
  CASE p = "db/1" -> "1"
    [] p = "db/2" -> "2"
    [] p = "tmp/1" -> "1"

\* The orders in which the backend may enumerate the objects S.
Enumerations(S) ==
  {e \in [1 .. Cardinality(S) -> S] : \A i, j \in DOMAIN e : e[i] = e[j] => i = j}

\* GetChildren(dir, result): the loop from objects_begin() to objects_end(),
\* which the backend runs in the order e; dir is not looked at.
GetChildren(dir, e) ==
  /\ e \in Enumerations({p \in DOMAIN obj : obj[p].present})
  /\ ret' = [op |-> "GetChildren", dir |-> dir, status |-> StatusOK,
             result |-> [i \in DOMAIN e |-> PathFilename(e[i])]]
  /\ UNCHANGED <<build, obj, pre, readerVars, writerVars, scen, lockVars, rres>>

\* A call of FileExists(fname); fault: the stat fails in the backend.
FileExistsCall(fname, fault) ==
  /\ ret' = [op |-> "FileExists", fname |-> fname, fault |-> fault,
             value |-> FileExists(obj, fname, fault)]
  /\ UNCHANGED <<build, obj, pre, readerVars, writerVars, scen, lockVars, rres>>

\* GetFileSize(fname, file_size)
GetFileSize(pool, fname, fault) ==
  LET st == IoCtxStat(pool, fname, fault)
  IN  IF st.err # "0"
      THEN [status |-> IOError(<<"GetFileSize/stat", fname>>, st.err), file_size |-> 0]
      ELSE [status |-> StatusOK, file_size |-> st.size]

\* DeleteFile(fname): the status and the pool it leaves.
DeleteFileResult(pool, fname, fault) ==
  LET rm == IoCtxRemove(pool, fname, fault)
  IN  IF rm.err # "0"
      THEN [status |-> IOError(<<"DeleteFile", fname>>, rm.err), pool |-> pool]
      ELSE [status |-> StatusOK, pool |-> rm.pool]

\* No call of the scenario has been made.
NoScen == [phase |-> 0, src |-> "", target |-> ""]

\* The scenario after a RenameFile: it begins when the remove of the source
\* failed after the target was written.
ScenAfterRename(src, target, status) ==
  IF status.code = "IOError" /\ status.context = <<"RenameFile/remove", src>>
  THEN [phase |-> 1, src |-> src, target |-> target]
  ELSE NoScen

\* The scenario after a DeleteFile: it goes on with a DeleteFile of the
\* source whose remove the backend does not fail, and then with one more
\* DeleteFile of the source.
ScenAfterDelete(fname, fault) ==
  IF scen.phase = 1 /\ fname = scen.src /\ ~fault
  THEN [scen EXCEPT !.phase = 2]
  ELSE IF scen.phase = 2 /\ fname = scen.src
  THEN [scen EXCEPT !.phase = 3]
  ELSE NoScen

DeleteFile(fname, fault) ==
  LET d == DeleteFileResult(obj, fname, fault)
  IN  /\ obj' = d.pool
      /\ pre' = obj
      /\ ret' = [op |-> "DeleteFile", status |-> d.status, fname |-> fname, fault |-> fault]
      /\ scen' = ScenAfterDelete(fname, fault)
      /\ UNCHANGED <<build, readerVars, writerVars, lockVars, rres>>

\* The backend call of RenameFile that fails, if one does.
RenameFaults == {"none", "stat", "read", "write_full", "remove"}

\* A rename that removes the source although the write of the target failed.
RenameResultRemovingAfterFailedWrite(pool, src, target, fault) ==
  LET st == IoCtxStat(pool, src, fault = "stat")
      rd == IoCtxRead(pool, src, st.size, 0, fault = "read")
      wr == IoCtxWriteFull(pool, target, rd.bl, fault = "write_full")
      rm == IoCtxRemove(wr.pool, src, fault = "remove")
  IN  IF st.err # "0"
      THEN [status |-> IOError(<<"RenameFile/stat", src>>, st.err), pool |-> pool]
      ELSE IF rd.err # "0"
      THEN [status |-> IOError(<<"RenameFile/read", src>>, rd.err), pool |-> pool]
      ELSE IF wr.err # "0"
      THEN [status |-> IOError(<<"RenameFile/write_full", target>>, wr.err), pool |-> rm.pool]
      ELSE IF rm.err # "0"
      THEN [status |-> IOError(<<"RenameFile/remove", src>>, rm.err), pool |-> rm.pool]
      ELSE [status |-> StatusOK, pool |-> rm.pool]

\* A rename that writes the target and leaves the source.
RenameResultKeepingSource(pool, src, target, fault) ==
  LET st == IoCtxStat(pool, src, fault = "stat")
      rd == IoCtxRead(pool, src, st.size, 0, fault = "read")
      wr == IoCtxWriteFull(pool, target, rd.bl, fault = "write_full")
  IN  IF st.err # "0"
      THEN [status |-> IOError(<<"RenameFile/stat", src>>, st.err), pool |-> pool]
      ELSE IF rd.err # "0"
      THEN [status |-> IOError(<<"RenameFile/read", src>>, rd.err), pool |-> pool]
      ELSE IF wr.err # "0"
      THEN [status |-> IOError(<<"RenameFile/write_full", target>>, wr.err), pool |-> wr.pool]
      ELSE IF fault = "remove"
      THEN [status |-> IOError(<<"RenameFile/remove", src>>, "EIO"), pool |-> wr.pool]
      ELSE [status |-> StatusOK, pool |-> wr.pool]

\* RenameFile(src, target): stat src, read it whole, write_full target,
\* remove src; the first call that fails ends it.  The status and the pool
\* it leaves.
RenameResult(pool, src, target, fault) ==
  LET st == IoCtxStat(pool, src, fault = "stat")
      rd == IoCtxRead(pool, src, st.size, 0, fault = "read")
      wr == IoCtxWriteFull(pool, target, rd.bl, fault = "write_full")
      rm == IoCtxRemove(wr.pool, src, fault = "remove")
  IN  IF st.err # "0"
      THEN [status |-> IOError(<<"RenameFile/stat", src>>, st.err), pool |-> pool]
      ELSE IF rd.err # "0"
      THEN [status |-> IOError(<<"RenameFile/read", src>>, rd.err), pool |-> pool]
      ELSE IF wr.err # "0"
      THEN [status |-> IOError(<<"RenameFile/write_full", target>>, wr.err), pool |-> wr.pool]
      ELSE IF rm.err # "0"
      THEN [status |-> IOError(<<"RenameFile/remove", src>>, rm.err), pool |-> rm.pool]
      ELSE [status |-> StatusOK, pool |-> rm.pool]

RenameFile(src, target, fault) ==
  LET rn == RenameResult(obj, src, target, fault)
  IN  /\ obj' = rn.pool
      /\ pre' = obj
      /\ ret' = [op |-> "RenameFile", status |-> rn.status,
                 src |-> src, target |-> target, fault |-> fault]
      /\ scen' = ScenAfterRename(src, target, rn.status)
      /\ UNCHANGED <<build, readerVars, writerVars, lockVars, rres>>

\* NewWritableFile(fname, result): an exclusive create, then the writer.
NewWritableFile(w, fname, fault) ==
  /\ wfile[w] = ""
  /\ LET cr == IoCtxCreate(obj, fname, TRUE, fault)
     IN  IF cr.err # "0"
         THEN /\ ret' = [op |-> "NewWritableFile", w |-> w,
                         status |-> IOError(<<"NewWritableFile", fname>>, cr.err)]
              /\ UNCHANGED <<obj, wfile>>
         ELSE /\ obj' = cr.pool
              /\ wfile' = [wfile EXCEPT ![w] = fname]
              /\ ret' = [op |-> "NewWritableFile", w |-> w, status |-> StatusOK]
  /\ UNCHANGED <<build, pre, readerVars, pc, waitSeq, appended, syncSnap, aio, nextTok, ackLog,
                 syncAll, flushVars, scen, lockVars, rres>>

\* A LockFile that hands out the one FileLock it made first.
NewFileLockShared(fname) == [id |-> 1, fname |-> fname]

\* new leveldb::FileLock(): an object of its own, which holds nothing; the
\* name it was asked for is kept here to tell which file a handle is for.
NewFileLock(fname) == [id |-> nextLock, fname |-> fname]

\* LockFile(fname, lock)
LockFile(fname) ==
  /\ nextLock <= MaxLocks
  /\ LET lock == NewFileLock(fname)
     IN  /\ locks' = locks \cup {lock}
         /\ ret' = [op |-> "LockFile", status |-> StatusOK, fname |-> fname, lock |-> lock]
  /\ nextLock' = nextLock + 1
  /\ UNCHANGED <<build, obj, pre, readerVars, writerVars, scen, rres>>

\* UnlockFile(lock), for a lock that LockFile handed out: the handle is not
\* held after it.
UnlockFile(lock) ==
  /\ lock \in locks
  /\ locks' = locks \ {lock}
  /\ ret' = [op |-> "UnlockFile", status |-> StatusOK, lock |-> lock]
  /\ UNCHANGED <<build, obj, pre, readerVars, writerVars, scen, nextLock, rres>>

\* --------------------------------------------------- RadosWritableFile

\* The data of the Append call numbered tok: len bytes, each tok.
Data(tok, len) == [i \in 1 .. len |-> tok]

\* The appends of writer w that are queued and not yet acknowledged.
Outstanding(w) == {aio[i].tok : i \in {j \in DOMAIN aio : aio[j].w = w}}

\* An AioCompletion of writer w: of its Append numbered id, or of its Flush
\* numbered id.
Completion(kind, id, w) == [kind |-> kind, id |-> id, w |-> w]

\* std::auto_ptr<librados::AioCompletion> c(aio_create_completion()) ...
\* c.release(): the auto_ptr gives the completion up without deleting it, no
\* callback is set on it, and nothing else holds it: it stays allocated.
AppendCompletionKept(w, tok) == completions \cup {Completion("append", tok, w)}

\* An aio_append that queues nothing.
AioNotQueued(q, op) == q

\* An aio_append that puts the append before the ones already queued.
AioQueuedFirst(q, op) == <<op>> \o q

\* ctx_->aio_append(fname_, c.get(), bl, data.size()): the append joins the
\* IoCtx's queue behind the appends issued before it.
AioQueued(q, op) == Append(q, op)

\* Append(data) of src/cbits/RadosEnv.cpp: the append is queued and the call
\* returns.
WriterAppend(w, len, fault) ==
  /\ build = "cbits"
  /\ wfile[w] # "" /\ pc[w] = "idle" /\ ~closed[w]
  /\ nextTok <= MaxAppends
  /\ nextTok' = nextTok + 1
  /\ IF fault
     THEN /\ ret' = [op |-> "Append", w |-> w,
                     status |-> IOError(<<"RadosWriteableFile/Append", wfile[w]>>, "EIO")]
          /\ UNCHANGED <<aio, appended, completions>>
     ELSE /\ aio' = AioQueued(aio, [tok |-> nextTok, w |-> w, fname |-> wfile[w],
                                    bl |-> Data(nextTok, len), st |-> "queued"])
          /\ appended' = [appended EXCEPT ![w] = @ \o Data(nextTok, len)]
          /\ completions' = AppendCompletionKept(w, nextTok)
          /\ ret' = [op |-> "Append", w |-> w, status |-> StatusOK]
  /\ UNCHANGED <<build, obj, pre, readerVars, wfile, pc, waitSeq, syncSnap, ackLog,
                 syncAll, closed, flushq, nextFlush, scen, lockVars, rres>>

\* Append(data) of src/main.cpp: a synchronous append.
WriterAppendMain(w, len, fault) ==
  /\ build = "main"
  /\ wfile[w] # "" /\ pc[w] = "idle" /\ ~closed[w]
  /\ nextTok <= MaxAppends
  /\ nextTok' = nextTok + 1
  /\ IF fault
     THEN /\ ret' = [op |-> "Append", w |-> w,
                     status |-> IOError(<<"RadosWriteableFile/Append", wfile[w]>>, "EIO")]
          /\ UNCHANGED <<obj, appended>>
     ELSE /\ obj' = IoCtxAppend(obj, wfile[w], Data(nextTok, len))
          /\ appended' = [appended EXCEPT ![w] = @ \o Data(nextTok, len)]
          /\ ret' = [op |-> "Append", w |-> w, status |-> StatusOK]
  /\ UNCHANGED <<build, pre, readerVars, wfile, pc, waitSeq, syncSnap, aio, ackLog,
                 syncAll, flushVars, scen, lockVars, rres>>

\* The backend applies a queued append; the appends to one object are
\* applied in queue order.  A failed append leaves the object.
AioApply(i, fault) ==
  /\ i \in DOMAIN aio
  /\ aio[i].st = "queued"
  /\ \A j \in 1 .. i - 1 : ~(aio[j].st = "queued" /\ aio[j].fname = aio[i].fname)
  /\ IF fault
     THEN /\ aio' = [aio EXCEPT ![i].st = "failed"]
          /\ UNCHANGED obj
     ELSE /\ aio' = [aio EXCEPT ![i].st = "applied"]
          /\ obj' = IoCtxAppend(obj, aio[i].fname, aio[i].bl)
  /\ UNCHANGED <<build, ret, pre, readerVars, wfile, pc, waitSeq, appended, syncSnap,
                 nextTok, ackLog, syncAll, flushVars, scen, lockVars, rres>>

\* The backend acknowledges an append it has applied or failed: the
\* completion is complete and the append leaves the IoCtx's queue.
AioAck(i) ==
  /\ i \in DOMAIN aio
  /\ aio[i].st # "queued"
  /\ aio' = [j \in 1 .. Len(aio) - 1 |-> IF j < i THEN aio[j] ELSE aio[j + 1]]
  /\ ackLog' = Append(ackLog, [tok |-> aio[i].tok, w |-> aio[i].w,
                               rv |-> IF aio[i].st = "failed" THEN "EIO" ELSE "0"])
  /\ UNCHANGED <<build, obj, ret, pre, readerVars, wfile, pc, waitSeq, appended,
                 syncSnap, nextTok, syncAll, flushVars, scen, lockVars, rres>>

\* The appends of all writers that are queued and not yet acknowledged.
AllOutstanding == {aio[i].tok : i \in DOMAIN aio}

\* An aio_flush that does not wait.
AioFlushedAtOnce(w) == TRUE

\* An aio_flush that does not return when an append has failed.
AioFlushedUnlessFailed(w) ==
  /\ \A i \in DOMAIN aio : aio[i].tok > waitSeq[w]
  /\ \A k \in DOMAIN ackLog : ackLog[k].rv = "0"

\* An aio_flush that waits for the appends of its own writer only.
AioFlushedOwn(w) ==
  \A i \in DOMAIN aio : aio[i].w = w => aio[i].tok > waitSeq[w]

\* ctx_->aio_flush() returns when every append queued before the call has
\* been acknowledged.
AioFlushed(w) == \A i \in DOMAIN aio : aio[i].tok > waitSeq[w]

\* Sync() of src/cbits/RadosEnv.cpp calls aio_flush.
WriterSyncCall(w) ==
  /\ build = "cbits"
  /\ wfile[w] # "" /\ pc[w] = "idle" /\ ~closed[w]
  /\ pc' = [pc EXCEPT ![w] = "Sync"]
  /\ waitSeq' = [waitSeq EXCEPT ![w] = nextTok - 1]
  /\ syncSnap' = [syncSnap EXCEPT ![w] = Outstanding(w)]
  /\ syncAll' = [syncAll EXCEPT ![w] = AllOutstanding]
  /\ ret' = [op |-> "Sync", w |-> w, status |-> [StatusOK EXCEPT !.code = "blocked"]]
  /\ UNCHANGED <<build, obj, pre, readerVars, wfile, appended, aio, nextTok, ackLog,
                 flushVars, scen, lockVars, rres>>

\* aio_flush returns err and Sync returns.
WriterSyncReturn(w, fault) ==
  /\ build = "cbits"
  /\ pc[w] = "Sync"
  /\ AioFlushed(w)
  /\ pc' = [pc EXCEPT ![w] = "idle"]
  /\ waitSeq' = [waitSeq EXCEPT ![w] = 0]
  /\ syncAll' = [syncAll EXCEPT ![w] = {}]
  /\ ret' = [op |-> "Sync", w |-> w,
             status |-> IF fault
                        THEN IOError(<<"RadosWriteableFile/Sync", wfile[w]>>, "EIO")
                        ELSE StatusOK]
  /\ UNCHANGED <<build, obj, pre, readerVars, wfile, appended, syncSnap, aio,
                 nextTok, ackLog, flushVars, scen, lockVars, rres>>

\* Sync() of src/main.cpp: nothing is done.
WriterSyncMain(w) ==
  /\ build = "main"
  /\ wfile[w] # "" /\ pc[w] = "idle" /\ ~closed[w]
  /\ syncSnap' = [syncSnap EXCEPT ![w] = Outstanding(w)]
  /\ ret' = [op |-> "Sync", w |-> w, status |-> StatusOK]
  /\ UNCHANGED <<build, obj, pre, readerVars, wfile, pc, waitSeq, appended, aio,
                 nextTok, ackLog, syncAll, flushVars, scen, lockVars, rres>>

\* ------------------------------------------------ the reader specification


\* FreeAioCompletion(cb, arg), the callback Flush sets on its completion:
\* static_cast<AioCompletion*>(arg)->release().
FreeAioCompletion(f) == completions \ {Completion("flush", f.id, f.w)}

\* Flush() in src/cbits/RadosEnv.cpp: aio_flush_async is queued with a
\* completion and the call returns; fault: aio_flush_async returns an error
\* and the auto_ptr deletes the completion.
WriterFlush(w, fault) ==
  /\ build = "cbits"
  /\ wfile[w] # "" /\ pc[w] = "idle" /\ ~closed[w]
  /\ nextFlush <= MaxFlushes
  /\ nextFlush' = nextFlush + 1
  /\ IF fault
     THEN /\ ret' = [op |-> "Flush", w |-> w,
                     status |-> IOError(<<"RadosWriteableFile/Flush", wfile[w]>>, "EIO")]
          /\ UNCHANGED <<flushq, completions>>
     ELSE /\ flushq' = flushq \cup {[id |-> nextFlush, w |-> w, seq |-> nextTok - 1]}
          /\ completions' = completions \cup {Completion("flush", nextFlush, w)}
          /\ ret' = [op |-> "Flush", w |-> w, status |-> StatusOK]
  /\ UNCHANGED <<build, obj, pre, readerVars, wfile, pc, waitSeq, appended, syncSnap, aio,
                 nextTok, ackLog, syncAll, closed, scen, lockVars, rres>>

\* The backend completes an aio_flush_async: every write queued before it is
\* acknowledged, and the callback of its completion runs.
FlushComplete(f) ==
  /\ f \in flushq
  /\ \A i \in DOMAIN aio : aio[i].tok > f.seq
  /\ flushq' = flushq \ {f}
  /\ completions' = FreeAioCompletion(f)
  /\ UNCHANGED <<build, obj, ret, pre, readerVars, wfile, pc, waitSeq, appended, syncSnap,
                 aio, nextTok, ackLog, syncAll, closed, nextFlush, scen, lockVars, rres>>

\* Flush() in src/main.cpp: nothing is done.
WriterFlushMain(w) ==
  /\ build = "main"
  /\ wfile[w] # "" /\ pc[w] = "idle" /\ ~closed[w]
  /\ nextFlush <= MaxFlushes
  /\ nextFlush' = nextFlush + 1
  /\ ret' = [op |-> "Flush", w |-> w, status |-> StatusOK]
  /\ UNCHANGED <<build, obj, pre, readerVars, wfile, pc, waitSeq, appended, syncSnap, aio,
                 nextTok, ackLog, syncAll, closed, completions, flushq, scen, lockVars, rres>>

\* Close(), the same in both builds: nothing is done; the writer is not used
\* after it.
WriterClose(w) ==
  /\ wfile[w] # "" /\ pc[w] = "idle" /\ ~closed[w]
  /\ closed' = [closed EXCEPT ![w] = TRUE]
  /\ ret' = [op |-> "Close", w |-> w, status |-> StatusOK]
  /\ UNCHANGED <<build, obj, pre, readerVars, wfile, pc, waitSeq, appended, syncSnap, aio,
                 nextTok, ackLog, syncAll, completions, flushq, nextFlush, scen, lockVars, rres>>

NoCall == [op |-> "none", status |-> StatusOK]


\* No writer has been made and no append queued.
NoWriters ==
  /\ wfile = [w \in Writers |-> ""]
  /\ pc = [w \in Writers |-> "idle"]
  /\ waitSeq = [w \in Writers |-> 0]
  /\ appended = [w \in Writers |-> <<>>]
  /\ syncSnap = [w \in Writers |-> {}]
  /\ aio = <<>>
  /\ nextTok = 1
  /\ ackLog = <<>>
  /\ syncAll = [w \in Writers |-> {}]
  /\ closed = [w \in Writers |-> FALSE]
  /\ completions = {}
  /\ flushq = {}
  /\ nextFlush = 1

\* No call of RenameFile, DeleteFile, LockFile or a random-access Read has
\* been made.
NoEnvCalls ==
  /\ scen = NoScen
  /\ locks = {}
  /\ nextLock = 1
  /\ rres = [t \in Threads |-> NoRead]

\* NewSequentialFile(fname, result) on a pool that holds at most the object
\* fname, with any content: the reader is constructed with off_ = 0.
InitReader ==
  /\ build \in Builds
  /\ fname_ \in Names
  /\ \E o \in ObjStates : obj = [x \in Names |-> IF x = fname_ THEN o ELSE NoObject]
  /\ off_ = 0
  /\ result = <<>>
  /\ hist = <<>>
  /\ ret = NoCall
  /\ pre = obj
  /\ NoWriters
  /\ NoEnvCalls

NextReader ==
  \/ \E n \in ReadSizes, fault \in BOOLEAN : SequentialRead(n, fault)
  \/ \E n \in SkipSizes : SequentialSkip(n)

SpecReader == InitReader /\ [][NextReader]_vars

\* ------------------------------------------------ the writer specification

\* The Env over an empty pool.
InitWriter ==
  /\ build \in Builds
  /\ obj = [x \in Names |-> NoObject]
  /\ pre = obj
  /\ ret = NoCall
  /\ fname_ = "a"
  /\ off_ = 0
  /\ result = <<>>
  /\ hist = <<>>
  /\ NoWriters
  /\ NoEnvCalls

NextWriter ==
  \/ \E w \in Writers, fname \in Names, fault \in BOOLEAN : NewWritableFile(w, fname, fault)
  \/ \E w \in Writers, len \in DataLens, fault \in BOOLEAN : WriterAppend(w, len, fault)
  \/ \E w \in Writers, len \in DataLens, fault \in BOOLEAN : WriterAppendMain(w, len, fault)
  \/ \E i \in 1 .. MaxAppends, fault \in BOOLEAN : AioApply(i, fault)
  \/ \E i \in 1 .. MaxAppends : AioAck(i)
  \/ \E w \in Writers : WriterSyncCall(w)
  \/ \E w \in Writers, fault \in BOOLEAN : WriterSyncReturn(w, fault)
  \/ \E w \in Writers : WriterSyncMain(w)

SpecWriter == InitWriter /\ [][NextWriter]_vars

\* ------------------------------------------------ the claims on the writer

\* The step is the return of a Sync of writer w.
SyncReturns(w) ==
  /\ ret' # ret
  /\ ret'.op = "Sync"
  /\ ret'.w = w
  /\ ret'.status.code # "blocked"

\* The appends the backend has acknowledged with an error.
FailedAppends(log) == {log[i].tok : i \in {j \in DOMAIN log : log[j].rv # "0"}}

\* The writer whose Append call was numbered tok.
IssuerOf(tok) ==
  CHOOSE w \in Writers : \E i \in DOMAIN appended[w] : appended[w][i] = tok

\* C1: when Sync returns OK, no append of its writer is unacknowledged: none
\* of those queued before the call, and the writer's set is empty.
C1_SyncReturnsOKOnlyWhenAcknowledged ==
  [][\A w \in Writers :
       (SyncReturns(w) /\ ret'.status.code = "OK")
       => (Outstanding(w) = {} /\ Outstanding(w)' = {})]_vars

\* A Sync of src/cbits/RadosEnv.cpp that began with appends unacknowledged
\* has returned OK.
C1_Witness ==
  /\ build = "cbits"
  /\ ret.op = "Sync" /\ ret.status.code = "OK"
  /\ syncSnap[ret.w] # {}
  /\ Outstanding(ret.w) = {}

\* C2: when Sync returns OK, none of the appends of its writer that were
\* unacknowledged when it was called has been acknowledged with an error.
C2_SyncFailsWhenAnAppendFailed ==
  [][\A w \in Writers :
       (SyncReturns(w) /\ ret'.status.code = "OK")
       => syncSnap'[w] \cap FailedAppends(ackLog') = {}]_vars

\* C3: after a Sync that returned OK, a read of the whole object of its
\* writer returns the bytes of the writer's Append calls, in call order.
C3_ReadAfterSyncReturnsTheAppends ==
  (ret.op = "Sync" /\ ret.status.code = "OK")
  => LET fname == wfile[ret.w]
         size == GetFileSize(obj, fname, FALSE).file_size
     IN  RandomAccessRead(obj, fname, 0, size, FALSE)
           = [status |-> StatusOK, result |-> appended[ret.w]]

\* C4: in every object the bytes of an earlier Append call of a writer come
\* before the bytes of a later Append call of the same writer.
C4_AppendsAppliedInIssueOrder ==
  \A name \in Names :
    LET b == obj[name].bytes
    IN  \A i \in DOMAIN b : \A j \in DOMAIN b :
          (i < j /\ IssuerOf(b[i]) = IssuerOf(b[j])) => b[i] <= b[j]

\* An object holds the bytes of two appends of one writer, and the later
\* append was acknowledged before the earlier one.
C4_Witness ==
  \E name \in Names :
    LET b == obj[name].bytes
    IN  \E i \in DOMAIN b : \E j \in DOMAIN b :
          /\ i < j /\ b[i] < b[j]
          /\ IssuerOf(b[i]) = IssuerOf(b[j])
          /\ \E k \in DOMAIN ackLog :
               /\ ackLog[k].tok = b[j]
               /\ \A m \in 1 .. k : ackLog[m].tok # b[i]

\* The step is the return of a NewWritableFile that was to give writer w.
NewWritableFileReturns(w) ==
  /\ ret' # ret
  /\ ret'.op = "NewWritableFile"
  /\ ret'.w = w

\* C18: a NewWritableFile that fails gives no writer and changes no object;
\* one that succeeds was for a name that had no object, and creates the
\* object empty; no NewWritableFile changes an object that exists.
C18_NewWritableFileCreatesExclusively ==
  [][\A w \in Writers :
       NewWritableFileReturns(w)
       => /\ \A name \in Names : obj[name].present => obj'[name] = obj[name]
          /\ ret'.status.code = "IOError" => (wfile' = wfile /\ obj' = obj)
          /\ ret'.status.code = "OK"
               => /\ wfile'[w] \in Names
                  /\ ~obj[wfile'[w]].present
                  /\ obj' = [obj EXCEPT ![wfile'[w]] = Object(<<>>)]]_vars

\* NewWritableFile has failed with EEXIST for the name of an object that
\* holds bytes: the object still holds them and no writer was given.
C18_Witness ==
  /\ ret.op = "NewWritableFile"
  /\ ret.status.code = "IOError" /\ ret.status.errno = "EEXIST"
  /\ wfile[ret.w] = ""
  /\ obj[ret.status.context[2]].bytes # <<>>

\* C19: when Sync returns, no append of any writer that was unacknowledged
\* when the Sync was called is still unacknowledged.
C19_SyncWaitsForAllWriters ==
  [][\A w \in Writers :
       SyncReturns(w) => syncAll[w] \cap AllOutstanding = {}]_vars

\* A Sync is held back by the append of another writer on another file: the
\* appends of its own writer are all acknowledged.
C19_Witness ==
  \E w \in Writers :
    /\ pc[w] = "Sync"
    /\ Outstanding(w) = {}
    /\ appended[w] # <<>>
    /\ ~AioFlushed(w)
    /\ \E i \in DOMAIN aio :
         /\ aio[i].tok \in syncAll[w]
         /\ aio[i].w # w
         /\ aio[i].fname # wfile[w]

\* ------------------------------------------------ the writer specification with a fair backend

\* The backend applies an append it has queued.
BackendApplies == \E i \in 1 .. MaxAppends, fault \in BOOLEAN : AioApply(i, fault)

\* The backend acknowledges an append.
BackendAcknowledges == \E i \in 1 .. MaxAppends : AioAck(i)

\* aio_flush returns to the Sync of writer w.
SyncReturnStep(w) == \E fault \in BOOLEAN : WriterSyncReturn(w, fault)

\* The writers with appends of one byte that the backend may fail when it
\* applies them.
NextSyncLive ==
  \/ \E w \in Writers, fname \in Names : NewWritableFile(w, fname, FALSE)
  \/ \E w \in Writers : WriterAppend(w, 1, FALSE)
  \/ \E w \in Writers : WriterAppendMain(w, 1, FALSE)
  \/ BackendApplies
  \/ BackendAcknowledges
  \/ \E w \in Writers : WriterSyncCall(w)
  \/ \E w \in Writers : SyncReturnStep(w)
  \/ \E w \in Writers : WriterSyncMain(w)

\* The backend goes on applying and acknowledging the appends it holds, with
\* success or with failure, and aio_flush returns once it can.
SpecSyncLive ==
  /\ InitWriter
  /\ [][NextSyncLive]_vars
  /\ WF_vars(BackendApplies)
  /\ WF_vars(BackendAcknowledges)
  /\ \A w \in Writers : WF_vars(SyncReturnStep(w))

\* C20: with a backend that acknowledges every append, every Sync that is
\* called returns, with OK or with an error.
C20_SyncTerminates ==
  \A w \in Writers :
    (pc[w] = "Sync")
      ~> (pc[w] = "idle" /\ ret.op = "Sync" /\ ret.w = w
          /\ ret.status.code \in {"OK", "IOError"})

\* A Sync has returned that was called while an append of its writer, which
\* the backend then failed, was not acknowledged.
C20_Witness ==
  /\ build = "cbits"
  /\ ret.op = "Sync" /\ ret.status.code \in {"OK", "IOError"}
  /\ pc[ret.w] = "idle"
  /\ \E k \in DOMAIN ackLog :
       /\ ackLog[k].tok \in syncSnap[ret.w]
       /\ ackLog[k].rv # "0"

\* ------------------------------------------------ the close specification

\* The Env over an empty pool: writers are made, Append (of one byte), Flush
\* and Close are called on them, and Sync never is; the backend fails no
\* create and no append it has queued.
InitClose ==
  /\ build \in Builds
  /\ obj = [x \in Names |-> NoObject]
  /\ pre = obj
  /\ ret = NoCall
  /\ fname_ = "a"
  /\ off_ = 0
  /\ result = <<>>
  /\ hist = <<>>
  /\ NoWriters
  /\ NoEnvCalls

NextClose ==
  \/ \E w \in Writers, fname \in Names : NewWritableFile(w, fname, FALSE)
  \/ \E w \in Writers, fault \in BOOLEAN : WriterAppend(w, 1, fault)
  \/ \E w \in Writers : WriterAppendMain(w, 1, FALSE)
  \/ \E i \in 1 .. MaxAppends : AioApply(i, FALSE)
  \/ \E i \in 1 .. MaxAppends : AioAck(i)
  \/ \E w \in Writers, fault \in BOOLEAN : WriterFlush(w, fault)
  \/ \E f \in flushq : FlushComplete(f)
  \/ \E w \in Writers : WriterFlushMain(w)
  \/ \E w \in Writers : WriterClose(w)

SpecClose == InitClose /\ [][NextClose]_vars

\* The step is the return of an Append of writer w with OK.
AppendReturnsOK(w) ==
  /\ nextTok' # nextTok
  /\ ret'.op = "Append" /\ ret'.w = w
  /\ ret'.status = StatusOK

\* The step is the return of a Flush or of a Close: neither waits for the
\* backend, so nothing is applied or acknowledged in it.
FlushAndCloseDoNotWait ==
  (nextFlush' # nextFlush \/ closed' # closed)
  => /\ ret'.op \in {"Flush", "Close"}
     /\ ret'.status.code \in {"OK", "IOError"}
     /\ aio' = aio /\ ackLog' = ackLog /\ obj' = obj

\* C13: when a writer is closed and the backend has acknowledged all its
\* appends and completed all its flushes, no completion made by its Append or
\* Flush calls is still allocated.
C13_NoCompletionLeftAfterClose ==
  \A w \in Writers :
    (/\ closed[w]
     /\ Outstanding(w) = {}
     /\ \A f \in flushq : f.w # w)
    => \A c \in completions : c.w # w

InitExists ==
  /\ build \in Builds
  /\ obj = [x \in Names |-> NoObject]
  /\ pre = obj
  /\ ret = NoCall
  /\ fname_ = "a"
  /\ off_ = 0
  /\ result = <<>>
  /\ hist = <<>>
  /\ NoWriters
  /\ NoEnvCalls

NextExists ==
  \/ \E w \in Writers, fname \in Names, fault \in BOOLEAN : NewWritableFile(w, fname, fault)
  \/ \E w \in Writers, len \in DataLens, fault \in BOOLEAN : WriterAppend(w, len, fault)
  \/ \E w \in Writers, len \in DataLens, fault \in BOOLEAN : WriterAppendMain(w, len, fault)
  \/ \E i \in 1 .. MaxAppends, fault \in BOOLEAN : AioApply(i, fault)
  \/ \E i \in 1 .. MaxAppends : AioAck(i)
  \/ \E fname \in Names, fault \in BOOLEAN : FileExistsCall(fname, fault)

SpecExists == InitExists /\ [][NextExists]_vars

\* C11: FileExists(name) returns true exactly when the stat does not fail in
\* the backend and a writer was made for the name, whether or not its appends
\* have reached the object; before that, and on any failure of the stat, it
\* returns false.
C11_FileExistsAfterCreate ==
  ret.op = "FileExists"
  => /\ ret.value \in BOOLEAN
     /\ ret.value = (~ret.fault /\ \E w \in Writers : wfile[w] = ret.fname)

\* FileExists has returned true for the file of a writer whose Append has
\* returned OK and is not applied to the object yet.
C11_Witness ==
  /\ ret.op = "FileExists" /\ ret.value
  /\ \E w \in Writers :
       /\ wfile[w] = ret.fname
       /\ appended[w] # <<>>
       /\ obj[ret.fname].bytes = <<>>
       /\ \E i \in DOMAIN aio : aio[i].w = w /\ aio[i].st = "queued"

\* ------------------------------------------------ the listing specification

\* The Env over a pool of objects named with a directory part: any of them
\* exist, empty; files are created and deleted and GetChildren is called.
InitList ==
  /\ build \in Builds
  /\ obj \in [Paths -> {NoObject, Object(<<>>)}]
  /\ pre = obj
  /\ ret = NoCall
  /\ fname_ = "a"
  /\ off_ = 0
  /\ result = <<>>
  /\ hist = <<>>
  /\ NoWriters
  /\ NoEnvCalls

NextList ==
  \/ \E w \in Writers, p \in Paths : NewWritableFile(w, p, FALSE)
  \/ \E p \in Paths : DeleteFile(p, FALSE)
  \/ \E dir \in Dirs : \E e \in Enumerations({p \in Paths : obj[p].present}) :
       GetChildren(dir, e)

SpecList == InitList /\ [][NextList]_vars

\* The objects named dir + "/" + name for some name, and what is left of the
\* name of each when dir + "/" is taken off.
Under(dir) ==
  CASE dir = "db" -> {"db/1", "db/2"}
    [] dir = "tmp" -> {"tmp/1"}

Stripped(p) ==
  CASE p = "db/1" -> "1"
    [] p = "db/2" -> "2"
    [] p = "tmp/1" -> "1"

\* C12: GetChildren(dir) returns, once each, the names without the directory
\* part of the objects that exist under dir, and of no other object.
C12_GetChildrenReturnsTheNamesUnderDir ==
  ret.op = "GetChildren"
  => LET under == {p \in Under(ret.dir) : obj[p].present}
     IN  /\ {ret.result[i] : i \in DOMAIN ret.result} = {Stripped(p) : p \in under}
         /\ Len(ret.result) = Cardinality(under)

\* ------------------------------------------------ the rename specification

\* The Env over a pool that holds any objects.
InitRename ==
  /\ build \in Builds
  /\ obj \in [Names -> ObjStates]
  /\ pre = obj
  /\ ret = NoCall
  /\ fname_ = "a"
  /\ off_ = 0
  /\ result = <<>>
  /\ hist = <<>>
  /\ NoWriters
  /\ NoEnvCalls

NextRename ==
  \/ \E src \in Names, target \in Names, fault \in RenameFaults : RenameFile(src, target, fault)
  \/ \E fname \in Names, fault \in BOOLEAN : DeleteFile(fname, fault)

SpecRename == InitRename /\ [][NextRename]_vars

\* ------------------------------------------------ the claims on RenameFile

\* C5: after a RenameFile that returned OK the target holds the bytes the
\* source held when it was read.
C5_TargetHoldsSourceBytes ==
  (ret.op = "RenameFile" /\ ret.status.code = "OK")
  => obj[ret.target] = Object(pre[ret.src].bytes)

\* C6: after a RenameFile that returned OK, of a source that held c to a
\* target that did not exist, GetFileSize(target) is the length of c, a read
\* of the target returns c, and FileExists(source) is false.
C6_RenameToNewName ==
  (/\ ret.op = "RenameFile" /\ ret.status.code = "OK"
   /\ pre[ret.src].present /\ ~pre[ret.target].present)
  => LET c == pre[ret.src].bytes
         sz == GetFileSize(obj, ret.target, FALSE)
     IN  /\ sz.status.code = "OK" /\ sz.file_size = Len(c)
         /\ \A n \in {Len(c), Len(c) + 1} :
              RandomAccessRead(obj, ret.target, 0, n, FALSE) = [status |-> StatusOK, result |-> c]
         /\ \A fault \in BOOLEAN : ~FileExists(obj, ret.src, fault)

\* A one-byte source has been renamed to a name that did not exist.
C6_Witness ==
  /\ ret.op = "RenameFile" /\ ret.status.code = "OK"
  /\ pre[ret.src] = Object(<<1>>) /\ ~pre[ret.target].present
  /\ obj[ret.target] = Object(<<1>>)

\* C7: RenameFile ends at the first of stat, read, write_full, remove that
\* fails, with an IOError that names the call; no later call is made: a
\* failure of stat or read leaves the pool as it was, a failure of
\* write_full leaves the source, and a failure of remove leaves source and
\* target both present with the same bytes, the source as it was.
C7_RenameEndsAtFirstFailure ==
  ret.op = "RenameFile" =>
    LET s == ret.src
        t == ret.target
        ctx == ret.status.context
    IN  IF ret.fault = "stat" \/ ~pre[s].present
        THEN ret.status.code = "IOError" /\ ctx = <<"RenameFile/stat", s>> /\ obj = pre
        ELSE IF ret.fault = "read"
        THEN ret.status.code = "IOError" /\ ctx = <<"RenameFile/read", s>> /\ obj = pre
        ELSE IF ret.fault = "write_full"
        THEN /\ ret.status.code = "IOError" /\ ctx = <<"RenameFile/write_full", t>>
             /\ obj[s] = pre[s]
        ELSE IF ret.fault = "remove"
        THEN /\ ret.status.code = "IOError" /\ ctx = <<"RenameFile/remove", s>>
             /\ obj[s].present /\ obj[t].present
             /\ obj[s].bytes = obj[t].bytes
             /\ s # t => obj[s] = pre[s]
        ELSE ret.status.code = "OK"

\* The remove of a rename has failed after the target, which held other
\* bytes, was written.
C7_Witness ==
  /\ ret.op = "RenameFile" /\ ret.fault = "remove"
  /\ ret.src # ret.target
  /\ pre[ret.src].present /\ pre[ret.target].present
  /\ pre[ret.src].bytes # pre[ret.target].bytes
  /\ obj[ret.src] = obj[ret.target]

\* The first DeleteFile of the source after the RenameFile that failed at its
\* remove: the object was still there, the call returns OK and removes the
\* source and nothing else.
DeleteAfterFailedRenameRemovesSource ==
  scen.phase = 2
  => /\ ret.op = "DeleteFile" /\ ret.fname = scen.src
     /\ pre[scen.src].present
     /\ ret.status = StatusOK
     /\ obj = [pre EXCEPT ![scen.src] = NoObject]

\* C16 as stated: after a RenameFile that failed at its remove, DeleteFile of
\* the source returns OK and removes only the source, and one more DeleteFile
\* of the source, with no failure of the backend, returns OK or NotFound and
\* changes no object.
C16_RepeatedDeleteIsSuccessOrNotFound ==
  /\ DeleteAfterFailedRenameRemovesSource
  /\ (scen.phase = 3 /\ ~ret.fault)
     => /\ ret.status.code \in {"OK", "NotFound"}
        /\ obj = pre

\* C16 amended: after a RenameFile that failed at its remove, DeleteFile of
\* the source returns OK and removes only the source, and one more DeleteFile
\* of the source changes no object and returns IOError, with the backend's
\* error for a missing object (ENOENT) when the backend does not fail.
C16_RepeatedDeleteIsIOError ==
  /\ DeleteAfterFailedRenameRemovesSource
  /\ scen.phase = 3
     => /\ ret.op = "DeleteFile" /\ ret.fname = scen.src
        /\ ~pre[scen.src].present
        /\ obj = pre
        /\ ret.status = IOError(<<"DeleteFile", scen.src>>,
                                IF ret.fault THEN "EIO" ELSE "ENOENT")

\* The source has been deleted twice after a RenameFile to another name that
\* failed at its remove, the backend failing neither DeleteFile: the target
\* is still there.
C16_Witness ==
  /\ scen.phase = 3
  /\ ~ret.fault
  /\ scen.target # scen.src
  /\ obj[scen.target].present
  /\ obj[scen.target].bytes # <<>>

\* ------------------------------------------------ the lock specification

\* The Env over a pool that holds any objects; LockFile and UnlockFile are
\* called.
InitLock ==
  /\ build \in Builds
  /\ obj \in [Names -> ObjStates]
  /\ pre = obj
  /\ ret = NoCall
  /\ fname_ = "a"
  /\ off_ = 0
  /\ result = <<>>
  /\ hist = <<>>
  /\ NoWriters
  /\ NoEnvCalls

NextLock ==
  \/ \E fname \in Names : LockFile(fname)
  \/ \E lock \in locks : UnlockFile(lock)

SpecLock == InitLock /\ [][NextLock]_vars

\* C17: every LockFile returns OK with a handle that is none of the handles
\* held, and all of those stay held, whether or not one of them is for the
\* same name and whether or not the object exists; every UnlockFile returns
\* OK; neither changes an object.
C17_LockFileAlwaysSucceeds ==
  [][/\ (nextLock' # nextLock)
        => /\ ret'.op = "LockFile"
           /\ ret'.status = StatusOK
           /\ ret'.lock.fname = ret'.fname
           /\ ret'.lock \notin locks
           /\ locks' = locks \cup {ret'.lock}
           /\ obj' = obj
     /\ (nextLock' = nextLock /\ locks' # locks)
        => /\ ret'.op = "UnlockFile"
           /\ ret'.status = StatusOK
           /\ locks' = locks \ {ret'.lock}
           /\ obj' = obj]_vars

\* LockFile has returned OK and two handles for one name are held, and no
\* object of that name exists.
C17_Witness ==
  /\ ret.op = "LockFile" /\ ret.status = StatusOK
  /\ ~obj[ret.fname].present
  /\ \E l1 \in locks : \E l2 \in locks :
       l1 # l2 /\ l1.fname = ret.fname /\ l2.fname = ret.fname

\* ------------------------------------------------ the random-access specification

\* One random-access reader of the object "a", used by two threads; the
\* object holds anything or is missing, and DeleteFile may remove it.
InitRandom ==
  /\ build \in Builds
  /\ fname_ = "a"
  /\ obj \in {[x \in Names |-> IF x = fname_ THEN o ELSE NoObject] : o \in ObjStates}
  /\ pre = obj
  /\ ret = NoCall
  /\ off_ = 0
  /\ result = <<>>
  /\ hist = <<>>
  /\ NoWriters
  /\ NoEnvCalls

NextRandom ==
  \/ \E t \in Threads, offset \in ReadOffsets, n \in RandomReadSizes, fault \in BOOLEAN :
       RandomReadCall(t, offset, n, fault)
  \/ \E t \in Threads : RandomReadReturn(t)
  \/ DeleteFile(fname_, FALSE)

SpecRandom == InitRandom /\ [][NextRandom]_vars

\* C15: a step of a Read of a thread changes no object, nothing of the
\* reader and nothing of the other thread's Read; a Read returns what a Read
\* with its arguments returns when it runs alone on the object it read, so two
\* Reads with the same arguments on the same content return the same.
C15_RandomAccessReadIsStateless ==
  [][\A t \in Threads :
       rres'[t] # rres[t]
       => /\ obj' = obj /\ fname_' = fname_ /\ off_' = off_
          /\ \A u \in Threads \ {t} : rres'[u] = rres[u]
          /\ rres'[t].st = "done"
               => /\ rres'[t].out = RandomAccessRead([obj EXCEPT ![fname_] = rres'[t].seen],
                                                     fname_, rres'[t].offset,
                                                     rres'[t].n, rres'[t].fault)
                  /\ \A u \in Threads :
                       (/\ rres'[u].st = "done"
                        /\ rres'[u].offset = rres'[t].offset
                        /\ rres'[u].n = rres'[t].n
                        /\ rres'[u].fault = rres'[t].fault
                        /\ rres'[u].seen = rres'[t].seen)
                       => rres'[u].out = rres'[t].out]_vars

\* The Read of one thread has returned bytes of the object while the Read
\* of the other thread, at another offset, holds other bytes of it and has
\* not returned.
C15_Witness ==
  /\ rres["t1"].st = "done" /\ rres["t2"].st = "reading"
  /\ rres["t1"].seen = obj[fname_] /\ rres["t2"].seen = obj[fname_]
  /\ rres["t1"].offset # rres["t2"].offset
  /\ rres["t1"].out.status = StatusOK
  /\ rres["t1"].out.result # <<>>
  /\ rres["t2"].bl.bl # <<>>
  /\ rres["t2"].bl.bl # rres["t1"].out.result

\* ------------------------------------------------ the claims on the readers

\* C8: on a fresh sequential reader, Skip(k) with k not beyond the end of the
\* object followed by Read(n) returns the status and the bytes that
\* Read(k, n) of a random-access reader of the same object returns.
C8_SkipThenReadIsRandomAccessRead ==
  (/\ Len(hist) = 2
   /\ hist[1].op = "Skip" /\ hist[2].op = "Read"
   /\ hist[1].n <= Len(obj[fname_].bytes))
  => LET ra == RandomAccessRead(obj, fname_, hist[1].n, hist[2].n, hist[2].fault)
     IN  /\ ret.status.code = ra.status.code
         /\ ret.status.errno = ra.status.errno
         /\ ret.status.code = "OK" => result = ra.result

\* Skip(1), Read(1) of a two-byte object has returned the second byte alone.
C8_Witness ==
  /\ Len(hist) = 2
  /\ hist[1].op = "Skip" /\ hist[1].n = 1
  /\ hist[2].op = "Read" /\ hist[2].n = 1
  /\ ret.status.code = "OK"
  /\ Len(obj[fname_].bytes) = 2
  /\ obj[fname_].bytes[1] # obj[fname_].bytes[2]
  /\ result = <<obj[fname_].bytes[2]>>

\* C9: no call moves the cursor of the sequential reader backward.
C9_CursorNeverDecreases == [][off_' >= off_]_vars

\* C10: a Read whose backend read fails returns an IOError and leaves the
\* cursor; any other Read returns OK with the bytes from the cursor on, cut
\* at the end of the object and at n, and moves the cursor by their number.
C10_ReadMovesCursorByBytesReturned ==
  [][(hist' # hist /\ hist'[Len(hist')].op = "Read") =>
      LET c == hist'[Len(hist')]
          o == obj[fname_]
          left == IF off_ >= Len(o.bytes) THEN 0 ELSE Len(o.bytes) - off_
      IN  IF c.fault \/ ~o.present
          THEN ret'.status.code = "IOError" /\ off_' = off_
          ELSE /\ ret'.status.code = "OK"
               /\ Len(result') = Min(c.n, left)
               /\ \A i \in 1 .. Len(result') : result'[i] = o.bytes[off_ + i]
               /\ off_' = off_ + Len(result')]_vars

\* A failed Read has left the cursor at 0 and the next Read, asking for more
\* than the object holds, has returned the whole object and stopped at its end.
C10_Witness ==
  /\ Len(hist) = 2
  /\ hist[1].op = "Read" /\ hist[1].fault
  /\ hist[2].op = "Read" /\ ~hist[2].fault
  /\ ret.status.code = "OK"
  /\ Len(result) > 0 /\ Len(result) < hist[2].n
  /\ off_ = Len(result) /\ off_ = Len(obj[fname_].bytes)

====
